---- MODULE Spec2Model ----
(***************************************************************************)
(* Model of the RMV appointment checker.  The repository holds two         *)
(* programs with the same poll / detect / notify loop:                     *)
(*   "scripted"  src/check_appointment.py              (Playwright fetch)  *)
(*   "static"    src/rmv_checker/check_appointment.py  (requests fetch)    *)
(* The variable strategy says which of the two programs is running.        *)
(* Text is a sequence of one-character strings; an HTML document is the    *)
(* sequence of its leaf nodes in document order.                           *)
(***************************************************************************)
EXTENDS Integers, Sequences, FiniteSets, TLC

VARIABLES strategy, N, userKey, apiToken, pc, attempt, fstep, exc, html,
          pwOpen, browserOpen, hist, fetches, sleeps, notifies, posts,
          exitCode, detected, captured, appointmentUrl, url

vars == <<strategy, N, userKey, apiToken, pc, attempt, fstep, exc, html,
          pwOpen, browserOpen, hist, fetches, sleeps, notifies, posts,
          exitCode, detected, captured, appointmentUrl, url>>

\* ---------------------------------------------------------------- bounds
MaxN == 3
MinN == 0 - 1
MaxNodes == 2

\* --------------------------------------------------------- configuration
Strategies == {"scripted", "static"}

\* os.getenv yields None, or a string that may be empty
Cred == {"None", "empty", "set"}

\* Python truthiness of a credential value
Truthy(c) == c = "set"

\* `not (KEY and TOKEN)` / `not user_key or not api_token`
CredentialsMissing_OnlyIfBoth(u, t) == ~Truthy(u) /\ ~Truthy(t)
CredentialsMissing(u, t) == ~(Truthy(u) /\ Truthy(t))

\* the APPOINTMENT_URL environment variable: unset, empty or a URL
EnvUrls == {"unset", "", "custom"}

\* DEFAULT_URL of each program
DEFAULT_URL(s) == IF s = "scripted" THEN "default-scripted" ELSE "default-static"

\* os.environ.get(key, default)
EnvGet(v, default) == IF v = "unset" THEN default ELSE v

\* the url main passes to check_once; the scripted main has no such variable
TargetUrl(s, v) == IF s = "static" THEN EnvGet(v, DEFAULT_URL(s)) ELSE "none"

\* the URL a fetch attempt requests
FetchedUrl(s, u) == IF s = "static" THEN u ELSE DEFAULT_URL(s)

\* the "url" field of the notification payload
PayloadUrl(s, v) == IF s = "static" THEN EnvGet(v, DEFAULT_URL(s)) ELSE DEFAULT_URL(s)

\* --------------------------------------------------------- exceptions
RequestExceptionKinds == {"HTTPError", "ConnectionError", "Timeout", "MissingSchema"}
ExceptionKinds == RequestExceptionKinds \cup {"PlaywrightError", "ParserRejectedMarkup"}

IsRequestException(k) == k \in RequestExceptionKinds
IsException(k) == k \in ExceptionKinds

\* `except requests.RequestException` in fetch_page
FetcherCatches_OnlyHTTPError(k) == k = "HTTPError"
FetcherCatches_OnlyTransport(k) == k \in {"ConnectionError", "Timeout"}
FetcherCatches(k) == IsRequestException(k)

\* `except requests.RequestException` in send_notification
NotifierCatches_OnlyHTTPError(k) == k = "HTTPError"
NotifierCatches(k) == IsRequestException(k)

\* `except Exception` in the scripted main; the static main has no handler
MainCatches_OnlyRequestException(s, k) == s = "scripted" /\ IsRequestException(k)
MainCatches(s, k) == s = "scripted" /\ IsException(k)

\* --------------------------------------------------------- text
Lower_Identity(c) == c
Lower(c) ==
    CASE c = "J" -> "j" [] c = "U" -> "u" [] c = "L" -> "l" [] c = "Y" -> "y"
      [] c = "A" -> "a" [] c = "G" -> "g" [] c = "S" -> "s" [] c = "E" -> "e"
      [] c = "P" -> "p" [] c = "N" -> "n" [] c = "O" -> "o"
      [] OTHER -> c

\* str.lower()
LowerStr(s) == [i \in 1..Len(s) |-> Lower(s[i])]

IsSpace(c) == c = " "

RECURSIVE LStrip(_)
LStrip(s) == IF s # <<>> /\ IsSpace(Head(s)) THEN LStrip(Tail(s)) ELSE s

RECURSIVE RStrip(_)
RStrip(s) ==
    IF s # <<>> /\ IsSpace(s[Len(s)]) THEN RStrip(SubSeq(s, 1, Len(s) - 1)) ELSE s

\* str.strip()
Strip(s) == RStrip(LStrip(s))

\* `m in text`
Contains(m, text) ==
    \E i \in 1..(Len(text) - Len(m) + 1) : SubSeq(text, i, i + Len(m) - 1) = m

\* separator.join(strings)
RECURSIVE Join(_, _)
Join(sep, strs) ==
    IF strs = <<>> THEN <<>>
    ELSE IF Len(strs) = 1 THEN strs[1]
    ELSE strs[1] \o sep \o Join(sep, Tail(strs))

\* --------------------------------------------------------- documents
\* leaf nodes of a document: "text" a text node, "script" the content of a
\* script/style element, "comment" a comment, "baddecl" a malformed
\* declaration that html.parser refuses
NodeKinds == {"text", "script", "comment"}

TextNode(t) == [kind |-> "text", text |-> t]

\* BeautifulSoup(html, "html.parser") raises ParserRejectedMarkup
ParserRejects(doc) == \E i \in 1..Len(doc) : doc[i].kind = "baddecl"

\* the strings get_text collects: text nodes only
IsCollected(node) == node.kind = "text"

\* the stripped, non-empty strings of the document, in order
RECURSIVE StrippedStrings(_)
StrippedStrings(doc) ==
    IF doc = <<>> THEN <<>>
    ELSE LET s == Strip(Head(doc).text)
         IN  IF IsCollected(Head(doc)) /\ s # <<>>
             THEN <<s>> \o StrippedStrings(Tail(doc))
             ELSE StrippedStrings(Tail(doc))

\* BeautifulSoup(html, "html.parser").get_text(" ", strip=True)
get_text(doc) == Join(<<" ">>, StrippedStrings(doc))

\* the month markers each program tests
Markers(s) ==
    IF s = "scripted"
    THEN {<<"j", "u", "l">>, <<"a", "u", "g">>}
    ELSE {<<"j", "u", "l">>, <<"a", "u", "g">>, <<"s", "e", "p">>}

page_has_july_or_august(s, doc) ==
    LET text == LowerStr(get_text(doc))
    IN  \E m \in Markers(s) : Contains(m, text)

\* pages the booking site serves during a run
NoDatesPage == <<TextNode(<<"N", "o">>)>>
AugustPage == <<TextNode(<<"N", "e", "x", "t">>), TextNode(<<"A", "u", "g">>)>>
SeptemberPage == <<TextNode(<<"S", "e", "p">>)>>
MalformedPage == <<[kind |-> "baddecl", text |-> <<>>], TextNode(<<"J", "u", "l">>)>>
Pages == {NoDatesPage, AugustPage, SeptemberPage, MalformedPage}

None == <<[kind |-> "None", text |-> <<>>]>>

\* --------------------------------------------------------- run state
Iterations == 0..(N - 1)

NewIter == [fetch |-> "none", detect |-> "none", notify |-> "none",
            post |-> "none", calls |-> 0, ndiag |-> 0, fdiag |-> 0,
            slept |-> FALSE, launched |-> FALSE, url |-> "none",
            nurl |-> "none"]

Init ==
    /\ strategy \in Strategies
    /\ N \in MinN..MaxN
    /\ userKey \in Cred
    /\ apiToken \in Cred
    /\ pc = "Idle"
    /\ attempt = 0
    /\ fstep = "none"
    /\ exc = "none"
    /\ html = None
    /\ pwOpen = FALSE
    /\ browserOpen = FALSE
    /\ hist = [i \in Iterations |-> NewIter]
    /\ fetches = 0
    /\ sleeps = 0
    /\ notifies = 0
    /\ posts = 0
    /\ exitCode = "running"
    /\ detected = "none"
    /\ captured = None
    /\ appointmentUrl \in EnvUrls
    /\ url = "none"

cfg == <<strategy, N, userKey, apiToken, appointmentUrl>>
session == <<pwOpen, browserOpen, captured>>
counters == <<fetches, sleeps, notifies, posts>>

\* an exception of kind k leaves the current call and reaches main's loop body
Propagate(k) ==
    /\ exc' = k
    /\ IF MainCatches(strategy, k)
       THEN pc' = "Except" /\ exitCode' = exitCode
       ELSE pc' = "Crashed" /\ exitCode' = "1"

\* `for attempt in range(LOOP_COUNT)` asked for index a; the body opens with
\* the fetch call
ForNext_StopOnceFound(a) ==
    /\ attempt' = a
    /\ IF a < N /\ \A i \in 0..(a - 1) : hist[i].detect # "true"
       THEN /\ pc' = "Fetching"
            /\ fstep' = IF strategy = "scripted" THEN "enter" ELSE "get"
            /\ fetches' = fetches + 1
            /\ exitCode' = exitCode
       ELSE /\ pc' = "Done"
            /\ fstep' = "none"
            /\ fetches' = fetches
            /\ exitCode' = "0"

ForNext_Inclusive(a) ==
    /\ attempt' = a
    /\ IF a <= N
       THEN /\ pc' = "Fetching"
            /\ fstep' = IF strategy = "scripted" THEN "enter" ELSE "get"
            /\ fetches' = fetches + 1
            /\ exitCode' = exitCode
       ELSE /\ pc' = "Done"
            /\ fstep' = "none"
            /\ fetches' = fetches
            /\ exitCode' = "0"

ForNext(a) ==
    /\ attempt' = a
    /\ IF a < N
       THEN /\ pc' = "Fetching"
            /\ fstep' = IF strategy = "scripted" THEN "enter" ELSE "get"
            /\ fetches' = fetches + 1
            /\ exitCode' = exitCode
       ELSE /\ pc' = "Done"
            /\ fstep' = "none"
            /\ fetches' = fetches
            /\ exitCode' = "0"

\* `if attempt < LOOP_COUNT - 1`
MoreAttemptsRemain_OffByOne(a, n) == a < n
MoreAttemptsRemain_Always(a, n) == TRUE
MoreAttemptsRemain(a, n) == a < n - 1

\* `if page_has_july_or_august(html): ... else: ...`
AfterDetect_AlwaysNotify(found) == "NotifyIfFound"
AfterDetect(found) == IF found THEN "NotifyIfFound" ELSE "EndIter"

StartMain ==
    /\ pc = "Idle"
    /\ url' = TargetUrl(strategy, appointmentUrl)
    /\ ForNext(0)
    /\ UNCHANGED <<cfg, session, exc, html, hist, sleeps, notifies, posts, detected>>

\* ------------------------------------------- scripted fetch_after_click
InFetcher(step) == pc = "Fetching" /\ strategy = "scripted" /\ fstep = step

\* a step inside the `async with` block raises: control goes to __aexit__
StepRaises ==
    /\ exc' = "PlaywrightError"
    /\ fstep' = "exit"
    /\ UNCHANGED <<pc, exitCode>>

StepReturns(next) ==
    /\ fstep' = next
    /\ UNCHANGED <<pc, exc, exitCode>>

\* `async with async_playwright() as p` entered
PwEnter ==
    /\ InFetcher("enter")
    /\ \/ /\ pwOpen' = TRUE
          /\ StepReturns("launch")
          /\ UNCHANGED hist
       \/ /\ pwOpen' = FALSE
          /\ fstep' = "none"
          /\ hist' = [hist EXCEPT ![attempt].fetch = "fail"]
          /\ Propagate("PlaywrightError")
    /\ UNCHANGED <<cfg, url, attempt, html, browserOpen, captured, counters, detected>>

Launch ==
    /\ InFetcher("launch")
    /\ \/ /\ browserOpen' = TRUE
          /\ hist' = [hist EXCEPT ![attempt].launched = TRUE]
          /\ StepReturns("new_page")
       \/ /\ browserOpen' = FALSE
          /\ hist' = hist
          /\ StepRaises
    /\ UNCHANGED <<cfg, url, attempt, html, pwOpen, captured, counters, detected>>

NewPage ==
    /\ InFetcher("new_page")
    /\ (StepReturns("goto") \/ StepRaises)
    /\ UNCHANGED <<cfg, url, attempt, html, session, hist, counters, detected>>

Goto ==
    /\ InFetcher("goto")
    /\ hist' = [hist EXCEPT ![attempt].url = FetchedUrl(strategy, url)]
    /\ (StepReturns("click") \/ StepRaises)
    /\ UNCHANGED <<cfg, url, attempt, html, session, counters, detected>>

Click ==
    /\ InFetcher("click")
    /\ (StepReturns("wait") \/ StepRaises)
    /\ UNCHANGED <<cfg, url, attempt, html, session, hist, counters, detected>>

WaitForTimeout ==
    /\ InFetcher("wait")
    /\ (StepReturns("content") \/ StepRaises)
    /\ UNCHANGED <<cfg, url, attempt, html, session, hist, counters, detected>>

Content ==
    /\ InFetcher("content")
    /\ \/ (\E p \in Pages : captured' = p) /\ StepReturns("close")
       \/ captured' = captured /\ StepRaises
    /\ UNCHANGED <<cfg, url, attempt, html, pwOpen, browserOpen, hist, counters, detected>>

BrowserClose ==
    /\ InFetcher("close")
    /\ \/ browserOpen' = FALSE /\ StepReturns("exit")
       \/ browserOpen' = browserOpen /\ StepRaises
    /\ UNCHANGED <<cfg, url, attempt, html, pwOpen, captured, hist, counters, detected>>

\* leaving the `async with` block, normally or by an exception: the
\* Playwright driver is stopped and with it every browser it launched
PwExit_OnlyOnSuccess ==
    /\ InFetcher("exit")
    /\ fstep' = "none"
    /\ captured' = None
    /\ IF exc = "none"
       THEN /\ pwOpen' = FALSE
            /\ browserOpen' = FALSE
            /\ html' = captured
            /\ hist' = [hist EXCEPT ![attempt].fetch = "ok"]
            /\ pc' = "Detecting"
            /\ UNCHANGED <<exc, exitCode>>
       ELSE /\ UNCHANGED <<pwOpen, browserOpen>>
            /\ html' = html
            /\ hist' = [hist EXCEPT ![attempt].fetch = "fail"]
            /\ Propagate(exc)
    /\ UNCHANGED <<cfg, url, attempt, counters, detected>>

PwExit ==
    /\ InFetcher("exit")
    /\ fstep' = "none"
    /\ pwOpen' = FALSE
    /\ browserOpen' = FALSE
    /\ captured' = None
    /\ IF exc = "none"
       THEN /\ html' = captured
            /\ hist' = [hist EXCEPT ![attempt].fetch = "ok"]
            /\ pc' = "Detecting"
            /\ UNCHANGED <<exc, exitCode>>
       ELSE /\ html' = html
            /\ hist' = [hist EXCEPT ![attempt].fetch = "fail"]
            /\ Propagate(exc)
    /\ UNCHANGED <<cfg, url, attempt, counters, detected>>

\* `except Exception as e` in the scripted main
ExceptHandler ==
    /\ pc = "Except"
    /\ exc' = "none"
    /\ hist' = [hist EXCEPT ![attempt].fdiag = @ + 1]
    /\ pc' = "EndIter"
    /\ UNCHANGED <<cfg, url, attempt, fstep, html, session, counters, exitCode, detected>>

\* ------------------------------------------------- static fetch_page
\* what requests.get(url) followed by raise_for_status() can do: an empty
\* URL is refused before anything is sent
FetchOutcomes(u) ==
    IF u = "" THEN {"MissingSchema"}
    ELSE {"ok", "HTTPError", "ConnectionError", "Timeout"}

FetchPage ==
    /\ pc = "Fetching"
    /\ strategy = "static"
    /\ fstep = "get"
    /\ fstep' = "none"
    /\ \E o \in FetchOutcomes(FetchedUrl(strategy, url)) :
         IF o = "ok"
         THEN /\ \E p \in Pages : html' = p
              /\ hist' = [hist EXCEPT ![attempt].fetch = "ok",
                                       ![attempt].url = FetchedUrl(strategy, url)]
              /\ pc' = "Detecting"
              /\ UNCHANGED <<exc, exitCode>>
         ELSE IF FetcherCatches(o)
         THEN /\ html' = None
              /\ hist' = [hist EXCEPT ![attempt].fetch = "fail",
                                       ![attempt].fdiag = @ + 1,
                                       ![attempt].url = FetchedUrl(strategy, url)]
              /\ pc' = "Detecting"
              /\ UNCHANGED <<exc, exitCode>>
         ELSE /\ html' = html
              /\ hist' = [hist EXCEPT ![attempt].fetch = "fail",
                                       ![attempt].url = FetchedUrl(strategy, url)]
              /\ Propagate(o)
    /\ UNCHANGED <<cfg, url, attempt, session, counters, detected>>

\* ------------------------------------------------- detection step
\* scripted: the body of the try block after the fetch; static: check_once
\* after fetch_page returned
\* `if html is None: return` in check_once; the scripted main has no such test
ShortCircuits_Never(s, h) == FALSE
ShortCircuits(s, h) == s = "static" /\ h = None

Detect ==
    /\ pc = "Detecting"
    /\ IF ShortCircuits(strategy, html)
       THEN /\ pc' = "EndIter"
            /\ UNCHANGED <<hist, exc, exitCode>>
       ELSE IF ParserRejects(html)
       THEN /\ hist' = [hist EXCEPT ![attempt].detect = "raised"]
            /\ Propagate("ParserRejectedMarkup")
       ELSE LET found == page_has_july_or_august(strategy, html)
            IN  /\ hist' = [hist EXCEPT ![attempt].detect =
                                            IF found THEN "true" ELSE "false"]
                /\ pc' = AfterDetect(found)
                /\ UNCHANGED <<exc, exitCode>>
    /\ UNCHANGED <<cfg, url, attempt, fstep, html, session, counters, detected>>

\* ------------------------------------------------- send_notification
PostOutcomes == {"ok", "HTTPError", "ConnectionError", "Timeout"}

\* the scripted program prints a warning when the keys are missing, the
\* static one returns silently
MissingKeysDiag_Silent(s) == 0
MissingKeysDiag(s) == IF s = "scripted" THEN 1 ELSE 0

SendNotification ==
    /\ pc = "NotifyIfFound"
    /\ notifies' = notifies + 1
    /\ IF CredentialsMissing(userKey, apiToken)
       THEN /\ hist' = [hist EXCEPT ![attempt].calls = @ + 1,
                                     ![attempt].notify = "skipped",
                                     ![attempt].ndiag = @ + MissingKeysDiag(strategy)]
            /\ pc' = "EndIter"
            /\ UNCHANGED <<posts, exc, exitCode>>
       ELSE /\ posts' = posts + 1
            /\ \E o \in PostOutcomes :
                 IF o = "ok"
                 THEN /\ hist' = [hist EXCEPT ![attempt].calls = @ + 1,
                                               ![attempt].notify = "sent",
                                               ![attempt].nurl = PayloadUrl(strategy, appointmentUrl),
                                               ![attempt].post = "ok"]
                      /\ pc' = "EndIter"
                      /\ UNCHANGED <<exc, exitCode>>
                 ELSE IF NotifierCatches(o)
                 THEN /\ hist' = [hist EXCEPT ![attempt].calls = @ + 1,
                                               ![attempt].notify = "failed",
                                               ![attempt].nurl = PayloadUrl(strategy, appointmentUrl),
                                               ![attempt].post = "fail",
                                               ![attempt].ndiag = @ + 1]
                      /\ pc' = "EndIter"
                      /\ UNCHANGED <<exc, exitCode>>
                 ELSE /\ hist' = [hist EXCEPT ![attempt].calls = @ + 1,
                                               ![attempt].notify = "raised",
                                               ![attempt].nurl = PayloadUrl(strategy, appointmentUrl),
                                               ![attempt].post = "fail"]
                      /\ Propagate(o)
    /\ UNCHANGED <<cfg, url, attempt, fstep, html, session, fetches, sleeps, detected>>

\* ------------------------------------------------- end of the loop body
EndOfIteration ==
    /\ pc = "EndIter"
    /\ IF MoreAttemptsRemain(attempt, N)
       THEN /\ pc' = "Sleeping"
            /\ sleeps' = sleeps + 1
            /\ hist' = [hist EXCEPT ![attempt].slept = TRUE]
            /\ UNCHANGED <<attempt, fstep, fetches, exitCode>>
       ELSE /\ ForNext(attempt + 1)
            /\ UNCHANGED <<sleeps, hist>>
    /\ UNCHANGED <<cfg, url, exc, html, session, notifies, posts, detected>>

\* time.sleep(SLEEP_SECONDS) returns
SleepReturns ==
    /\ pc = "Sleeping"
    /\ ForNext(attempt + 1)
    /\ UNCHANGED <<cfg, url, exc, html, session, hist, sleeps, notifies, posts, detected>>

Next ==
    \/ StartMain
    \/ PwEnter
    \/ Launch
    \/ NewPage
    \/ Goto
    \/ Click
    \/ WaitForTimeout
    \/ Content
    \/ BrowserClose
    \/ PwExit
    \/ ExceptHandler
    \/ FetchPage
    \/ Detect
    \/ SendNotification
    \/ EndOfIteration
    \/ SleepReturns

Spec == Init /\ [][Next]_vars

\* ------------------------------------------------------------------
\* The detector applied once to each document of a bounded family
JulyForms ==
    {<<a, b, c, d>> : a \in {"J", "j"}, b \in {"U", "u"},
                      c \in {"L", "l"}, d \in {"Y", "y"}}

OtherTexts ==
    { <<>>, <<" ">>, <<"J", "u">>, <<"l", "y">>, <<"A", "U", "G">>,
      <<"S", "e", "p">>, <<"N", "o">>, <<" ", "J", "U", "L", " ">>,
      <<"j", " ", "u", "l">> }

Texts == JulyForms \cup OtherTexts

Nodes == [kind : NodeKinds, text : Texts]

Documents == UNION {[1..n -> Nodes] : n \in 0..MaxNodes}

InitDetect ==
    /\ strategy \in Strategies
    /\ N = 0
    /\ userKey = "None"
    /\ apiToken = "None"
    /\ pc = "Call"
    /\ attempt = 0
    /\ fstep = "none"
    /\ exc = "none"
    /\ html \in Documents
    /\ pwOpen = FALSE
    /\ browserOpen = FALSE
    /\ hist = [i \in Iterations |-> NewIter]
    /\ fetches = 0
    /\ sleeps = 0
    /\ notifies = 0
    /\ posts = 0
    /\ exitCode = "running"
    /\ detected = "none"
    /\ captured = None
    /\ appointmentUrl = "unset"
    /\ url = "none"

\* one call of page_has_july_or_august(html)
CallDetector ==
    /\ pc = "Call"
    /\ detected' = IF page_has_july_or_august(strategy, html) THEN "true" ELSE "false"
    /\ pc' = "Returned"
    /\ UNCHANGED <<cfg, url, attempt, fstep, exc, html, session, hist, counters, exitCode>>

NextDetect == CallDetector

SpecDetect == InitDetect /\ [][NextDetect]_vars

\* ------------------------------------------------------------------
\* Properties
IterEnded(i) == i < attempt
PastNotify(i) == i < attempt \/ (i = attempt /\ pc \in {"EndIter", "Sleeping"})
AllFetchesFailed == \A i \in Iterations : hist[i].fetch # "ok"

\* C1: with N >= 1 and every fetch attempt failing, a run makes exactly N
\* fetch attempts, sleeps exactly N-1 times, never invokes the notifier and
\* ends normally.
C1_AllFetchesFail ==
    (N >= 1 /\ AllFetchesFailed) =>
        /\ pc # "Crashed"
        /\ notifies = 0
        /\ fetches <= N
        /\ sleeps <= N - 1
        /\ pc = "Done" => (fetches = N /\ sleeps = N - 1 /\ exitCode = "0")

C1_Witness ==
    /\ pc = "Done"
    /\ N = 3
    /\ \A i \in Iterations : hist[i].fetch = "fail"
    /\ fetches = 3
    /\ sleeps = 2

\* C2: a failure raised in the fetch step or in the detection step of an
\* iteration never aborts the run.
C2_FailureNeverAborts ==
    \A i \in Iterations :
        (hist[i].fetch = "fail" \/ hist[i].detect = "raised") => pc # "Crashed"

\* C3: with the user key or the API token unset (None or empty),
\* send_notification makes no HTTP POST and returns normally.
CredentialUnset == userKey \in {"None", "empty"} \/ apiToken \in {"None", "empty"}

C3_NoPostWithoutCredentials ==
    CredentialUnset =>
        /\ posts = 0
        /\ \A i \in Iterations :
              /\ hist[i].post = "none"
              /\ hist[i].notify \in {"none", "skipped"}
              /\ hist[i].calls = 1 => (hist[i].notify = "skipped" /\ PastNotify(i))

C3_Witness ==
    /\ userKey = "None"
    /\ apiToken = "set"
    /\ \E i \in Iterations : hist[i].calls = 1 /\ hist[i].notify = "skipped"
    /\ pc = "Sleeping"

\* C4: with both credentials set, a failing POST makes send_notification
\* emit one diagnostic and return normally; the loop then sleeps or ends the
\* iteration exactly as after a delivered notification.
C4_PostFailureContained ==
    \A i \in Iterations :
        hist[i].post = "fail" =>
            /\ Truthy(userKey) /\ Truthy(apiToken)
            /\ hist[i].notify = "failed"
            /\ hist[i].ndiag = 1
            /\ PastNotify(i)
            /\ IterEnded(i) => hist[i].slept = (i < N - 1)

C4_Witness ==
    \E i \in Iterations :
        /\ hist[i].post = "fail"
        /\ hist[i].ndiag = 1
        /\ i + 1 = attempt
        /\ pc = "Fetching"

\* C5: in every iteration the notifier is invoked only when the detection
\* outcome of that iteration is true, and then exactly once; an iteration
\* whose detection is false or whose fetch failed never invokes it.
C5_NotifyOnlyIfFound ==
    \A i \in Iterations :
        /\ hist[i].calls \in {0, 1}
        /\ hist[i].calls = 1 => (hist[i].detect = "true" /\ hist[i].fetch = "ok")
        /\ (hist[i].detect = "true" /\ PastNotify(i)) => hist[i].calls = 1
        /\ (hist[i].detect # "true" \/ hist[i].fetch = "fail") => hist[i].calls = 0

C5_Witness ==
    /\ pc = "Done"
    /\ \E i \in Iterations : hist[i].detect = "true" /\ hist[i].calls = 1
    /\ \E i \in Iterations : hist[i].detect = "false" /\ hist[i].calls = 0
    /\ \E i \in Iterations : hist[i].fetch = "fail" /\ hist[i].calls = 0

\* upper-case form of a letter, and a case-insensitive occurrence of a
\* lower-case word in a text
Upper(c) ==
    CASE c = "j" -> "J" [] c = "u" -> "U" [] c = "l" -> "L" [] c = "y" -> "Y"
      [] c = "a" -> "A" [] c = "g" -> "G" [] c = "s" -> "S" [] c = "e" -> "E"
      [] c = "p" -> "P"
      [] OTHER -> c

OccursAnyCase(word, text) ==
    \E i \in 1..(Len(text) - Len(word) + 1) :
        \A k \in 1..Len(word) : text[i + k - 1] \in {word[k], Upper(word[k])}

VisibleTexts(doc) == {doc[i].text : i \in {j \in 1..Len(doc) : doc[j].kind = "text"}}

C7_SleepBetweenIterations ==
    /\ \A i \in Iterations :
          /\ hist[i].slept => i < N - 1
          /\ IterEnded(i) => hist[i].slept = (i < N - 1)
    /\ N >= 1 => sleeps <= N - 1
    /\ (pc = "Done" /\ N >= 1) => sleeps = N - 1

C7_Witness ==
    /\ pc = "Done"
    /\ N = 3
    /\ sleeps = 2
    /\ hist[0].fetch = "fail"
    /\ hist[1].notify = "failed"
    /\ hist[2].detect = "true"
    /\ ~hist[2].slept

\* C8: whatever the outcomes of the iterations, the process never ends
\* abnormally: when it has stopped it is in Done with exit status 0.
C8_AlwaysExitsZero ==
    /\ pc # "Crashed"
    /\ exitCode \in {"running", "0"}
    /\ pc = "Done" => exitCode = "0"

\* C9: in the scripted strategy no Playwright session and no browser is
\* open outside the fetch attempt, on whichever path the attempt ended.
C9_SessionTornDown ==
    (strategy = "scripted" /\ pc # "Fetching") => (~pwOpen /\ ~browserOpen)

C9_Witness ==
    /\ strategy = "scripted"
    /\ pc = "Except"
    /\ exc = "PlaywrightError"
    /\ hist[attempt].launched
    /\ ~pwOpen
    /\ ~browserOpen

\* C10 as stated: no exception ever leaves fetch_after_click for its caller.
C10_FetcherNeverRaises ==
    ~(strategy = "scripted" /\ exc = "PlaywrightError" /\ pc \in {"Except", "Crashed"})

\* C10 as amended: in the scripted strategy a failure inside the fetch
\* leaves fetch_after_click as an exception and is caught by the handler of
\* main in the same iteration, which logs one diagnostic and skips detection
\* and notification; it never leaves main.
C10_FailureCaughtByMain ==
    strategy = "scripted" =>
        /\ pc # "Crashed"
        /\ pc = "Detecting" => html \in Pages
        /\ \A i \in Iterations :
              hist[i].fetch = "fail" =>
                  /\ hist[i].detect = "none"
                  /\ hist[i].calls = 0
                  /\ \/ i = attempt /\ pc = "Except" /\ exc = "PlaywrightError"
                                    /\ hist[i].fdiag = 0
                     \/ PastNotify(i) /\ hist[i].fdiag = 1

C10_Witness ==
    /\ strategy = "scripted"
    /\ \E i \in Iterations :
          /\ hist[i].fetch = "fail"
          /\ hist[i].launched
          /\ hist[i].fdiag = 1
          /\ IterEnded(i)
    /\ pc = "Detecting"

C12_SeptemberMatches ==
    (/\ pc \in {"NotifyIfFound", "EndIter", "Sleeping"}
     /\ hist[attempt].detect \in {"true", "false"}
     /\ \E t \in VisibleTexts(html) : OccursAnyCase(<<"s", "e", "p">>, t))
        => /\ hist[attempt].detect = "true"
           /\ pc \in {"EndIter", "Sleeping"} => hist[attempt].calls = 1

\* C13 as stated: every notification skipped for a missing credential
\* comes with one diagnostic.
C13_SkippedEmitsDiagnostic ==
    \A i \in Iterations : hist[i].notify = "skipped" => hist[i].ndiag = 1

\* C13 as amended: a notification skipped for a missing credential makes
\* no POST; the scripted program emits one diagnostic for it, the static
\* program none.
C13_SkippedDiagnosticPerProgram ==
    \A i \in Iterations :
        hist[i].notify = "skipped" =>
            /\ CredentialUnset
            /\ hist[i].post = "none"
            /\ hist[i].ndiag = IF strategy = "scripted" THEN 1 ELSE 0

C13_Witness ==
    /\ strategy = "scripted"
    /\ apiToken = "empty"
    /\ userKey = "set"
    /\ \E i \in Iterations : hist[i].notify = "skipped" /\ hist[i].ndiag = 1
    /\ pc = "EndIter"

\* the target URL the configuration asks for
ConfiguredUrl ==
    IF appointmentUrl = "unset" THEN DEFAULT_URL(strategy) ELSE appointmentUrl

\* C14: every fetch requests the configured target URL, or the built-in
\* default when none is configured, the same in every iteration, and the url
\* field of every notification is that URL.
C14_UrlIsConfiguredUrl ==
    appointmentUrl # "" => \A i \in Iterations :
        /\ hist[i].url \in {"none", ConfiguredUrl}
        /\ hist[i].nurl \in {"none", hist[i].url}
        /\ \A j \in Iterations :
              (hist[i].url # "none" /\ hist[j].url # "none") => hist[i].url = hist[j].url

\* C15: when the fetch of an iteration yields no result, the detector is
\* not invoked in that iteration and the iteration counts as not found: no
\* notification is made.
C15_NoResultSkipsDetection ==
    \A i \in Iterations :
        hist[i].fetch = "fail" =>
            /\ hist[i].detect = "none"
            /\ hist[i].notify = "none"
            /\ hist[i].calls = 0
            /\ (i = attempt /\ pc = "Detecting") => (strategy = "static" /\ html = None)

C15_Witness ==
    /\ strategy = "static"
    /\ pc = "EndIter"
    /\ html = None
    /\ hist[attempt].fetch = "fail"
    /\ hist[attempt].detect = "none"

\* the order of the steps of one run
StepOrder ==
    \/ pc = "Idle" /\ pc' \in {"Fetching", "Done"}
    \/ pc = "Fetching" /\ pc' \in {"Fetching", "Detecting", "Except", "Crashed"}
                       /\ attempt' = attempt /\ fetches' = fetches
    \/ pc = "Detecting" /\ pc' \in {"NotifyIfFound", "EndIter", "Except", "Crashed"}
                        /\ attempt' = attempt /\ fetches' = fetches
    \/ pc = "NotifyIfFound" /\ pc' = "EndIter" /\ attempt' = attempt
                            /\ fetches' = fetches
    \/ pc = "Except" /\ pc' = "EndIter" /\ attempt' = attempt /\ fetches' = fetches
    \/ pc = "EndIter" /\ pc' = "Sleeping" /\ attempt' = attempt /\ fetches' = fetches
    \/ pc = "EndIter" /\ pc' = "Done" /\ attempt = N - 1
    \/ pc = "Sleeping" /\ pc' = "Fetching" /\ attempt' = attempt + 1
                       /\ fetches' = fetches + 1

StepOrderState ==
    /\ pc \in {"Fetching", "Detecting", "NotifyIfFound", "Except", "EndIter",
                "Sleeping", "Crashed"} => (attempt \in Iterations /\ fetches = attempt + 1)
    /\ \A i \in Iterations :
          /\ hist[i].fetch # "none" => i <= attempt
          /\ hist[i].detect # "none" => hist[i].fetch = "ok"
          /\ hist[i].calls > 0 => hist[i].detect = "true"
          /\ hist[i].slept => (hist[i].fetch # "none" /\ (hist[i].detect = "true" => hist[i].calls = 1))
    /\ (pc = "Done" /\ N >= 1) =>
          (fetches = N /\ \A i \in Iterations : hist[i].fetch # "none")

\* C16: the steps of a run are sequential and ordered: one fetch attempt
\* at a time, fetch before detection, detection before notification,
\* notification before sleep, every sleep followed at once by the next
\* fetch, and Done only after the N-th iteration.
C16_StepsInOrder == [][StepOrder /\ StepOrderState']_vars

C16_Witness ==
    /\ pc = "Done"
    /\ N = 3
    /\ hist[0].calls = 1 /\ hist[0].slept
    /\ hist[1].fetch = "fail" /\ hist[1].slept
    /\ hist[2].detect = "false"

\* C17: a positive detection does not end the run early: a run that
\* reaches Done has made N fetch attempts, and the notifier has been invoked
\* once for each iteration whose detection was true.
C17_FoundDoesNotStop ==
    /\ notifies = Cardinality({i \in Iterations : hist[i].detect = "true" /\ PastNotify(i)})
    /\ (pc = "Done" /\ N >= 1) =>
          /\ fetches = N
          /\ notifies = Cardinality({i \in Iterations : hist[i].detect = "true"})
    /\ \A i \in Iterations :
          (hist[i].detect = "true" /\ IterEnded(i) /\ i < N - 1) => fetches >= i + 2

C17_Witness ==
    /\ pc = "Done"
    /\ N = 3
    /\ \A i \in Iterations : hist[i].detect = "true"
    /\ notifies = 3
    /\ fetches = 3

\* C18: with N <= 0 the run makes no fetch attempt, no sleep and no
\* notification and ends normally.
C18_NonPositiveCount ==
    N <= 0 =>
        /\ fetches = 0 /\ sleeps = 0 /\ notifies = 0 /\ posts = 0
        /\ pc \in {"Idle", "Done"}
        /\ pc = "Done" => exitCode = "0"

C18_Witness ==
    /\ N = 0 - 1
    /\ pc = "Done"
    /\ exitCode = "0"
    /\ fetches = 0

====
